---------------------------- MODULE Spec2Model ----------------------------
(***************************************************************************)
(* Model of the LCD2004 MicroPython driver (src/lcd2004.py): an HD44780     *)
(* character LCD behind a PCF8574 I2C backpack.  The driver object's        *)
(* fields are the variables; every public method is one action that runs    *)
(* the whole method, including the flushes and sleeps it performs.  The     *)
(* I2C transport and the clock are observed through `wire`, the sequence    *)
(* of transport calls and sleeps made by the last method call.              *)
(***************************************************************************)
EXTENDS Integers, Sequences, FiniteSets, TLC

VARIABLES
    address,          \* self.address
    auto_flush,       \* self.auto_flush
    display_on,       \* self._display_on   (0 or 1)
    cursor_on,        \* self._cursor_on    (0 or 1)
    blink_on,         \* self._blink_on     (0 or 1)
    backlight_state,  \* self._backlight_state (0x00 or 0x08)
    write_buffer,     \* self._write_buffer (sequence of bytes)
    wire,             \* transport calls and sleeps of the last method call
    exc,              \* the exception the last method call raised, or NoExc
    op,               \* the last method call: its name and arguments
    pending,          \* method calls that left bytes buffered since the last drain
    backlight_set,    \* set_backlight has returned, and was not called again since
    console,          \* the SimpleConsole object's own fields (src/simple_console.py)
    lcd_calls,        \* the calls the last console method made on self.lcd
    logged,           \* the entries log() appended since the console was last cleared
    hd44780,          \* the display controller behind the expander, as the bytes
                      \* delivered by the console's calls have left it
    failed            \* how many log() calls in a row raised, up to the last call or,
                      \* if that one was a log() that returned, up to just before it

vars == <<address, auto_flush, display_on, cursor_on, blink_on,
          backlight_state, write_buffer, wire, exc, op, pending,
          backlight_set, console, lcd_calls, logged, hd44780, failed>>

---------------------------------------------------------------------------
(* Bounds of the model *)

\* An appending method is taken only while fewer than MaxPending calls are buffered.
MaxPending == 1
\* A transport failure strikes one of the first MaxFailAt writes of a call (0: none).
MaxFailAt == 2
\* The bus scan returns at most MaxScan addresses.
MaxScan == 3

---------------------------------------------------------------------------
(* Program constants, src/lcd2004.py lines 24-56 *)

_CMD_CLEAR == 1
_CMD_HOME == 2
_CMD_ENTRY_MODE == 4
_CMD_DISPLAY_CTRL == 8
_CMD_SHIFT == 16
_CMD_FUNCTION_SET == 32
_CMD_SET_CGRAM == 64
_CMD_SET_DDRAM == 128
_ENTRY_INC == 2
_DISP_ON == 4
_CURSOR_ON == 2
_BLINK_ON == 1
_FUNC_2LINE == 8
_MASK_RS == 1
_MASK_RW == 2
_MASK_E == 4
_MASK_BL == 8
COLS == 20
ROWS == 4
\* the rows laid out one after the other in DDRAM, as if it were one line of 80 cells
RowOffsetsLinear == <<0, 20, 40, 60>>
_ROW_OFFSETS == <<0, 64, 20, 84>>
\* flush() sends the buffer in slices of this many bytes (range step, line 291)
CHUNK == 8

---------------------------------------------------------------------------
(* Python's integer operators.  & and | act on two's-complement integers of *)
(* unbounded width; the masks used by the driver are never negative.        *)
(* AndTable and OrTable hold the results for byte operands, computed once.  *)

RECURSIVE BitAndRec(_, _)
BitAndRec(a, mask) ==
    IF mask = 0 THEN 0
    ELSE (a % 2) * (mask % 2) + 2 * BitAndRec(a \div 2, mask \div 2)
AndTable == [a \in 0..255 |-> [b \in 0..255 |-> BitAndRec(a, b)]]
BitAnd(a, mask) == IF mask \in 0..255 THEN AndTable[a % 256][mask] ELSE BitAndRec(a, mask)

RECURSIVE BitOrRec(_, _)
BitOrRec(a, b) ==
    IF a = 0 THEN b
    ELSE IF b = 0 THEN a
    ELSE (IF a % 2 = 1 \/ b % 2 = 1 THEN 1 ELSE 0) + 2 * BitOrRec(a \div 2, b \div 2)
OrTable == [a \in 0..255 |-> [b \in 0..255 |-> BitOrRec(a, b)]]
BitOr(a, b) == IF a \in 0..255 /\ b \in 0..255 THEN OrTable[a][b] ELSE BitOrRec(a, b)

Min(a, b) == IF a < b THEN a ELSE b

\* the bit of byte x selected by the one-bit mask
Bit(x, mask) == (x \div mask) % 2

---------------------------------------------------------------------------
(* Transport and clock.  A running call is a record m holding the object's  *)
(* fields, the events it produced so far, the exception it raised (exc),    *)
(* and ttl: the number of transport writes left until the one that fails    *)
(* (0: none).  Once an exception is raised it propagates: later statements  *)
(* of the call are skipped, except a `finally` block.                       *)

NoExc == "none"
TransportError == "OSError: transport write failed"
NoDeviceError == "OSError: No I2C devices found for LCD2004."
Raised(m) == m.exc # NoExc

WriteEv(addr, data) == [kind |-> "write", addr |-> addr, data |-> data, us |-> 0]
FailEv(addr, data)  == [kind |-> "fail",  addr |-> addr, data |-> data, us |-> 0]
SleepEv(us)         == [kind |-> "sleep", addr |-> 0, data |-> <<>>, us |-> us]
ScanEv(found)       == [kind |-> "scan",  addr |-> 0, data |-> found, us |-> 0]

\* self.i2c.writeto(addr, data): delivers data, or raises OSError
writeto(m, addr, data) ==
    IF Raised(m) THEN m
    ELSE IF m.ttl = 1
         THEN [m EXCEPT !.wire = Append(@, FailEv(addr, data)),
                        !.exc = TransportError, !.ttl = 0]
         ELSE [m EXCEPT !.wire = Append(@, WriteEv(addr, data)),
                        !.ttl = IF @ > 1 THEN @ - 1 ELSE 0]

\* time.sleep_us(us)
sleep_us(m, us) ==
    IF Raised(m) THEN m ELSE [m EXCEPT !.wire = Append(@, SleepEv(us))]

\* time.sleep_ms(ms)
sleep_ms(m, ms) == sleep_us(m, ms * 1000)

---------------------------------------------------------------------------
(* Internals of LCD2004 *)

_write_nibble(m, byte, rs) ==
    IF Raised(m) THEN m
    ELSE LET data == BitOr(BitOr(BitAnd(byte, 240), m.backlight_state),
                           IF rs # 0 THEN _MASK_RS ELSE 0)
         IN [m EXCEPT !.write_buffer = Append(Append(@, BitOr(data, _MASK_E)), data)]

\* _send_byte with the two nibbles in the wrong order
SendByteLowFirst(m, byte, rs) ==
    _write_nibble(_write_nibble(m, BitAnd(byte * 16, 240), rs),
                  BitAnd(byte, 240), rs)

_send_byte(m, byte, rs) ==
    _write_nibble(_write_nibble(m, BitAnd(byte, 240), rs),
                  BitAnd(byte * 16, 240), rs)

RECURSIVE FlushChunksOfSix(_, _, _)
\* the loop of flush() with slices of 6 bytes: a slice ends between two nibbles
FlushChunksOfSix(m, buf, i) ==
    IF i >= Len(buf) \/ Raised(m) THEN m
    ELSE FlushChunksOfSix(writeto(m, m.address, SubSeq(buf, i + 1, Min(i + 6, Len(buf)))),
                          buf, i + 6)

RECURSIVE FlushChunks(_, _, _)
\* the loop of flush(): for i in range(0, len(buf), 8): writeto(address, buf[i:i+8])
FlushChunks(m, buf, i) ==
    IF i >= Len(buf) \/ Raised(m) THEN m
    ELSE FlushChunks(writeto(m, m.address, SubSeq(buf, i + 1, Min(i + CHUNK, Len(buf)))),
                     buf, i + CHUNK)

\* flush that keeps what it could not deliver: after a refused write the buffer
\* holds the bytes from the refused chunk on, for the next flush to send
FlushRetriesLater(m) ==
    IF Raised(m) THEN m
    ELSE IF m.write_buffer = <<>> THEN m
    ELSE LET r == FlushChunks(m, m.write_buffer, 0)
             done == CHUNK * (Len(r.wire) - Len(m.wire) - 1)
         IN IF Raised(r)
            THEN [r EXCEPT !.write_buffer = SubSeq(@, done + 1, Len(@))]
            ELSE [r EXCEPT !.write_buffer = <<>>]

\* flush without the finally: the buffer is cleared only when every write succeeded
FlushKeepsBufferOnFailure(m) ==
    IF Raised(m) THEN m
    ELSE IF m.write_buffer = <<>> THEN m
    ELSE LET r == FlushChunks(m, m.write_buffer, 0)
         IN IF Raised(r) THEN r ELSE [r EXCEPT !.write_buffer = <<>>]

flush(m) ==
    IF Raised(m) THEN m
    ELSE IF m.write_buffer = <<>> THEN m
    ELSE [FlushChunks(m, m.write_buffer, 0) EXCEPT !.write_buffer = <<>>]

\* _command that waits before it flushes, so the command reaches the bus after the wait
CommandSleepsFirst(m, cmd) ==
    LET m1 == _send_byte(m, BitAnd(cmd, 255), 0)
    IN IF cmd \in {_CMD_CLEAR, _CMD_HOME}
       THEN flush(sleep_ms(m1, 2))
       ELSE m1

_command(m, cmd) ==
    LET m1 == _send_byte(m, BitAnd(cmd, 255), 0)
    IN IF cmd \in {_CMD_CLEAR, _CMD_HOME}
       THEN sleep_ms(flush(m1), 2)
       ELSE m1

_data(m, val) == _send_byte(m, BitAnd(val, 255), 1)

\* the backlight applied by strobing an empty nibble through the buffer
BacklightByNibble(m) == flush(_write_nibble(m, 0, 0))

_apply_backlight_only(m) == writeto(m, m.address, <<m.backlight_state>>)

_apply_display_state(m) ==
    LET ctrl == BitOr(BitOr(BitOr(_CMD_DISPLAY_CTRL,
                                  IF m.display_on # 0 THEN _DISP_ON ELSE 0),
                            IF m.cursor_on # 0 THEN _CURSOR_ON ELSE 0),
                      IF m.blink_on # 0 THEN _BLINK_ON ELSE 0)
        m1 == _command(m, ctrl)
    IN IF m1.auto_flush THEN flush(m1) ELSE m1

---------------------------------------------------------------------------
(* Public API of LCD2004 *)

clear(m) == _command(m, _CMD_CLEAR)

home(m) == _command(m, _CMD_HOME)

set_backlight(m, on) ==
    _apply_backlight_only([m EXCEPT !.backlight_state = IF on THEN _MASK_BL ELSE 0])

set_display(m, on) ==
    _apply_display_state([m EXCEPT !.display_on = IF on THEN 1 ELSE 0])

\* set_cursor_visible that also resets the blink latch
SetCursorVisibleResetsBlink(m, on) ==
    _apply_display_state([m EXCEPT !.cursor_on = IF on THEN 1 ELSE 0, !.blink_on = 0])

set_cursor_visible(m, on) ==
    _apply_display_state([m EXCEPT !.cursor_on = IF on THEN 1 ELSE 0])

set_blink(m, on) ==
    _apply_display_state([m EXCEPT !.blink_on = IF on THEN 1 ELSE 0])

\* set_cursor whose column clamp is off by one (col > 20)
SetCursorClampOffByOne(m, col, row) ==
    LET row1 == IF row < 0 THEN 0 ELSE row
        row2 == IF row1 > 3 THEN 3 ELSE row1
        col1 == IF col < 0 THEN 0 ELSE col
        col2 == IF col1 > 20 THEN 20 ELSE col1
        addr == _ROW_OFFSETS[row2 + 1] + col2
        m1 == _command(m, BitOr(_CMD_SET_DDRAM, addr))
    IN IF m1.auto_flush THEN flush(m1) ELSE m1

set_cursor(m, col, row) ==
    LET row1 == IF row < 0 THEN 0 ELSE row
        row2 == IF row1 > 3 THEN 3 ELSE row1
        col1 == IF col < 0 THEN 0 ELSE col
        col2 == IF col1 > 19 THEN 19 ELSE col1
        addr == _ROW_OFFSETS[row2 + 1] + col2
        m1 == _command(m, BitOr(_CMD_SET_DDRAM, addr))
    IN IF m1.auto_flush THEN flush(m1) ELSE m1

RECURSIVE WriteLoop(_, _, _)
\* the loop of write(): for ch in s: self._data(ord(ch) & 0xFF)
WriteLoop(m, s, i) ==
    IF i > Len(s) \/ Raised(m) THEN m
    ELSE WriteLoop(_data(m, BitAnd(s[i], 255)), s, i + 1)

\* write that never flushes
WriteWithoutFlush(m, s) == WriteLoop(m, s, 1)

\* s is the sequence of the code points of a str, or of the values of a bytes
write(m, s) ==
    LET m1 == WriteLoop(m, s, 1)
    IN IF m1.auto_flush THEN flush(m1) ELSE m1

scroll_left(m) ==
    LET m1 == _command(m, BitOr(_CMD_SHIFT, 8))
    IN IF m1.auto_flush THEN flush(m1) ELSE m1

scroll_right(m) ==
    LET m1 == _command(m, BitOr(_CMD_SHIFT, 12))
    IN IF m1.auto_flush THEN flush(m1) ELSE m1

RECURSIVE CreateCharLoopUnmasked(_, _, _)
\* the loop of create_char without the 5-bit mask on the row
CreateCharLoopUnmasked(m, bitmap, i) ==
    IF i >= 8 THEN m
    ELSE LET row == IF i < Len(bitmap) THEN bitmap[i + 1] ELSE 0
         IN CreateCharLoopUnmasked(_data(m, row), bitmap, i + 1)

RECURSIVE CreateCharLoop(_, _, _)
\* the loop of create_char(): for i in range(8): ... self._data(row & 0x1F)
CreateCharLoop(m, bitmap, i) ==
    IF i >= 8 THEN m
    ELSE LET row == IF i < Len(bitmap) THEN bitmap[i + 1] ELSE 0
         IN CreateCharLoop(_data(m, BitAnd(row, 31)), bitmap, i + 1)

create_char(m, index, bitmap) ==
    LET idx == BitAnd(index, 7)
        m1 == _command(m, BitOr(_CMD_SET_CGRAM, idx * 8))
        m2 == CreateCharLoop(m1, bitmap, 0)
    IN IF m2.auto_flush THEN flush(m2) ELSE m2

---------------------------------------------------------------------------
(* Construction *)

\* addr=None, the default of the constructor's addr parameter
None == -1

\* _detect_address with the two preferred addresses tried in the wrong order
DetectPrefers3F(m, scan) ==
    LET m1 == [m EXCEPT !.wire = Append(@, ScanEv(scan))]
    IN IF scan = <<>> THEN [m1 EXCEPT !.exc = NoDeviceError]
       ELSE IF \E i \in 1..Len(scan) : scan[i] = 63 THEN [m1 EXCEPT !.address = 63]
       ELSE IF \E i \in 1..Len(scan) : scan[i] = 39 THEN [m1 EXCEPT !.address = 39]
       ELSE [m1 EXCEPT !.address = scan[1]]

\* scan is what self.i2c.scan() returns
_detect_address(m, scan) ==
    LET m1 == [m EXCEPT !.wire = Append(@, ScanEv(scan))]
    IN IF scan = <<>> THEN [m1 EXCEPT !.exc = NoDeviceError]
       ELSE IF \E i \in 1..Len(scan) : scan[i] = 39 THEN [m1 EXCEPT !.address = 39]
       ELSE IF \E i \in 1..Len(scan) : scan[i] = 63 THEN [m1 EXCEPT !.address = 63]
       ELSE [m1 EXCEPT !.address = scan[1]]

\* the object before __init__ has assigned anything
Blank(ttl) ==
    [address |-> None, auto_flush |-> FALSE, display_on |-> 0, cursor_on |-> 0,
     blink_on |-> 0, backlight_state |-> 0, write_buffer |-> <<>>,
     wire |-> <<>>, exc |-> NoExc, ttl |-> ttl]

\* the fields set up with the first wake nibble queued before the address is resolved
InitFieldsResolveLate(addr, backlight, auto, scan, ttl) ==
    LET m0 == _write_nibble(Blank(ttl), 48, 0)
        m1 == IF addr # None THEN [m0 EXCEPT !.address = addr]
              ELSE _detect_address(m0, scan)
    IN IF Raised(m1) THEN m1
       ELSE [m1 EXCEPT !.auto_flush = auto, !.display_on = 1, !.cursor_on = 0,
                       !.blink_on = 0,
                       !.backlight_state = IF backlight THEN _MASK_BL ELSE 0,
                       !.write_buffer = <<>>]

\* lines 80-91: address resolution and the latches
InitFields(addr, backlight, auto, scan, ttl) ==
    LET m0 == Blank(ttl)
        m1 == IF addr # None THEN [m0 EXCEPT !.address = addr]
              ELSE _detect_address(m0, scan)
    IN IF Raised(m1) THEN m1
       ELSE [m1 EXCEPT !.auto_flush = auto, !.display_on = 1, !.cursor_on = 0,
                       !.blink_on = 0,
                       !.backlight_state = IF backlight THEN _MASK_BL ELSE 0,
                       !.write_buffer = <<>>]

\* lines 93-107: power-on wait, three wake nibbles, switch to 4-bit mode
InitWake(m) ==
    LET a == sleep_ms(m, 60)
        b == sleep_ms(_write_nibble(a, 48, 0), 6)
        c == sleep_us(_write_nibble(b, 48, 0), 150)
        d == sleep_us(_write_nibble(c, 48, 0), 150)
    IN flush(_write_nibble(d, 32, 0))

\* the configuration with the entry mode set before the display is cleared
InitConfigureEntryFirst(m) ==
    LET a == _command(m, BitOr(_CMD_FUNCTION_SET, _FUNC_2LINE))
        b == _command(a, _CMD_DISPLAY_CTRL)
        c == _command(b, BitOr(_CMD_ENTRY_MODE, _ENTRY_INC))
        d == clear(c)
    IN _apply_backlight_only(_apply_display_state(d))

\* lines 109-115: configuration of the display
InitConfigure(m) ==
    LET a == _command(m, BitOr(_CMD_FUNCTION_SET, _FUNC_2LINE))
        b == _command(a, _CMD_DISPLAY_CTRL)
        c == clear(b)
        d == _command(c, BitOr(_CMD_ENTRY_MODE, _ENTRY_INC))
    IN _apply_backlight_only(_apply_display_state(d))

__init__(addr, backlight, auto, scan, ttl) ==
    InitConfigure(InitWake(InitFields(addr, backlight, auto, scan, ttl)))

---------------------------------------------------------------------------
(* The display controller (HD44780) as the bus drives it.  The expander     *)
(* puts each delivered byte on the controller's pins: bit 0 is RS, bit 2 is *)
(* E, bits 7..4 are the data lines D7..D4.  The controller latches the data *)
(* lines when E falls.  After power-on it takes every latched value as a    *)
(* whole instruction (D3..D0 are not wired and read 0) until a function-set *)
(* instruction with DL=0 makes it take two nibbles per byte, high first.    *)
(* A DDRAM cell holds a character code and `stale`: the cell was written    *)
(* last before the console's latest clear() began; `wiped` tells that this  *)
(* clear() found a character other than a space in DDRAM.                   *)

DDRAM_SIZE == 128

\* the address counter after a DDRAM access, two-line mode: 0x27 -> 0x40, 0x67 -> 0x00
NextAddr(a) == IF a = 39 THEN 64 ELSE IF a = 103 THEN 0 ELSE (a + 1) % DDRAM_SIZE
PrevAddr(a) == IF a = 64 THEN 39 ELSE IF a = 0 THEN 103 ELSE (a + DDRAM_SIZE - 1) % DDRAM_SIZE

BlankCell == [ch |-> 32, stale |-> FALSE]

PowerOn ==
    [wide |-> TRUE, pins |-> 0, high |-> -1, ac |-> 0, cgram |-> FALSE,
     inc |-> TRUE, display |-> FALSE, shift |-> 0, wiped |-> FALSE,
     ddram |-> [a \in 0..(DDRAM_SIZE - 1) |-> BlankCell]]

\* the value of hd44780 while no console drives the controller: its DDRAM is not
\* followed
Untracked == [PowerOn EXCEPT !.ddram = <<>>]

\* one instruction (rs = 0) or one data byte (rs = 1)
Execute(h, rs, byte) ==
    IF rs = 1
    THEN IF h.cgram THEN h
         ELSE [h EXCEPT !.ddram[h.ac] = [ch |-> byte, stale |-> FALSE],
                        !.ac = IF h.inc THEN NextAddr(@) ELSE PrevAddr(@)]
    ELSE IF byte >= 128 THEN [h EXCEPT !.ac = byte - 128, !.cgram = FALSE]
    ELSE IF byte >= 64 THEN [h EXCEPT !.cgram = TRUE]
    ELSE IF byte >= 32 THEN [h EXCEPT !.wide = (Bit(byte, 16) = 1)]
    ELSE IF byte >= 16
         THEN IF Bit(byte, 8) = 0 THEN h
              ELSE [h EXCEPT !.shift = (@ + (IF Bit(byte, 4) = 1 THEN 39 ELSE 1)) % 40]
    ELSE IF byte >= 8 THEN [h EXCEPT !.display = (Bit(byte, 4) = 1)]
    ELSE IF byte >= 4 THEN [h EXCEPT !.inc = (Bit(byte, 2) = 1)]
    ELSE IF byte >= 2 THEN [h EXCEPT !.ac = 0, !.cgram = FALSE, !.shift = 0]
    ELSE IF byte = 1
         THEN [h EXCEPT !.ac = 0, !.cgram = FALSE, !.shift = 0, !.inc = TRUE,
                        !.ddram = [a \in 0..(DDRAM_SIZE - 1) |-> BlankCell]]
    ELSE h

\* the falling edge of E: the data lines and RS as they stood while E was high
Latch(h, nibble, rs) ==
    IF h.wide THEN Execute(h, rs, nibble * 16)
    ELSE IF h.high = -1 THEN [h EXCEPT !.high = nibble]
    ELSE Execute([h EXCEPT !.high = -1], rs, h.high * 16 + nibble)

\* one byte arrives at the expander
Pins(h, byte) ==
    IF Bit(h.pins, 4) = 1 /\ Bit(byte, 4) = 0
    THEN Latch([h EXCEPT !.pins = byte], h.pins \div 16, h.pins % 2)
    ELSE [h EXCEPT !.pins = byte]

RECURSIVE FeedBytes(_, _, _)
\* (the test on h.high is never true: it makes h a value before the next byte)
FeedBytes(h, data, i) ==
    IF i > Len(data) \/ h.high > 15 THEN h ELSE FeedBytes(Pins(h, data[i]), data, i + 1)

RECURSIVE FeedWire(_, _, _)
\* the controller after the accepted writes among the events w[i..]
FeedWire(h, w, i) ==
    IF i > Len(w) \/ h.high > 15 THEN h
    ELSE FeedWire(IF w[i].kind = "write" THEN FeedBytes(h, w[i].data, 1) ELSE h, w, i + 1)

\* everything now in DDRAM was written before this moment
MarkStale(h) ==
    [h EXCEPT !.ddram = [a \in 0..(DDRAM_SIZE - 1) |-> [h.ddram[a] EXCEPT !.stale = TRUE]],
              !.wiped = \E a \in 0..(DDRAM_SIZE - 1) : h.ddram[a].ch # 32]

\* the cell the panel shows at row r, column c (both from 0)
Shown(h, r, c) ==
    LET line == IF r % 2 = 0 THEN 0 ELSE 64
        column == (IF r >= 2 THEN 20 ELSE 0) + c + h.shift
    IN h.ddram[line + (column % 40)]

---------------------------------------------------------------------------
(* Python values used by SimpleConsole.  A str is the sequence of its code  *)
(* points.  An argument of log() is tagged with its type: a str, or an int  *)
(* (which str() turns into its decimal digits); val holds the code points   *)
(* of the str, or the int as its one element.                               *)

StrArg(s) == [type |-> "str", val |-> s]
IntArg(n) == [type |-> "int", val |-> <<n>>]

RECURSIVE Digits(_)
Digits(n) == IF n < 10 THEN <<48 + n>> ELSE Append(Digits(n \div 10), 48 + (n % 10))

\* str(x)
str(x) ==
    IF x.type = "int"
    THEN (IF x.val[1] < 0 THEN <<45>> \o Digits(-x.val[1]) ELSE Digits(x.val[1]))
    ELSE x.val

\* s[:n], n >= 0
SliceTo(s, n) == SubSeq(s, 1, Min(n, Len(s)))
\* s[n:], n >= 0
SliceFrom(s, n) == SubSeq(s, Min(n, Len(s)) + 1, Len(s))
\* s[-n:], n >= 0 (s[-0:] is s)
SliceLast(s, n) == IF n = 0 THEN s ELSE SubSeq(s, Len(s) - Min(n, Len(s)) + 1, Len(s))

RECURSIVE split(_, _)
\* s.split(sep) for a one-character sep
split(s, sep) ==
    IF \A i \in 1..Len(s) : s[i] # sep THEN <<s>>
    ELSE LET i == CHOOSE k \in 1..Len(s) : s[k] = sep /\ \A j \in 1..(k - 1) : s[j] # sep
         IN <<SubSeq(s, 1, i - 1)>> \o split(SubSeq(s, i + 1, Len(s)), sep)

\* " " * n
Spaces(n) == [i \in 1..(IF n > 0 THEN n ELSE 0) |-> 32]

---------------------------------------------------------------------------
(* SimpleConsole (src/simple_console.py).  A running console call is a      *)
(* record c: the console's fields, lcd (the running record of its LCD2004,  *)
(* which carries the events and the exception) and calls, the calls made on *)
(* self.lcd so far, each with the number of events that preceded it.        *)

MAX_HISTORY == 4

ValueError == "ValueError: orientation must be 'bottom' or 'top'"

\* the console before __init__ has assigned anything
NoConsole == [orientation |-> "", wrap |-> FALSE, cols |-> 0, rows |-> 0, _buffer |-> <<>>]

BlankConsole(ttl) ==
    [lcd |-> Blank(ttl), orientation |-> NoConsole.orientation, wrap |-> NoConsole.wrap,
     cols |-> NoConsole.cols, rows |-> NoConsole.rows, _buffer |-> NoConsole._buffer,
     calls |-> <<>>]

\* a call on self.lcd whose outcome is the driver record `after`
LcdCall(c, name, args, after) ==
    IF Raised(c.lcd) THEN c
    ELSE [c EXCEPT !.calls = Append(@, [name |-> name, args |-> args,
                                         at |-> Len(c.lcd.wire)]),
                   !.lcd = after]

LcdClear(c) == LcdCall(c, "clear", <<>>, clear(c.lcd))
LcdSetCursor(c, col, row) == LcdCall(c, "set_cursor", <<col, row>>, set_cursor(c.lcd, col, row))
LcdWrite(c, s) == LcdCall(c, "write", <<s>>, write(c.lcd, s))
LcdFlush(c) == LcdCall(c, "flush", <<>>, flush(c.lcd))

RECURSIVE ClearRowsShort(_, _)
\* the loop of clear() writing one space too few on each row
ClearRowsShort(c, r) ==
    IF r >= c.rows \/ Raised(c.lcd) THEN c
    ELSE ClearRowsShort(LcdWrite(LcdSetCursor(c, 0, r), Spaces(c.cols - 1)), r + 1)

RECURSIVE ClearRows(_, _)
\* the loop of clear(): for r in range(self.rows)
ClearRows(c, r) ==
    IF r >= c.rows \/ Raised(c.lcd) THEN c
    ELSE ClearRows(LcdWrite(LcdSetCursor(c, 0, r), Spaces(c.cols)), r + 1)

\* clear() that forgets the lines but leaves the panel as it is
ClearBufferOnly(c) ==
    IF Raised(c.lcd) THEN c
    ELSE LcdFlush([c EXCEPT !._buffer = <<>>])

SimpleConsole_clear(c) ==
    IF Raised(c.lcd) THEN c
    ELSE LcdFlush(ClearRows(LcdClear([c EXCEPT !._buffer = <<>>]), 0))

RECURSIVE WrapLoop(_, _, _)
\* the loop of _wrap_line(): while line: out.append(line[:cols]); line = line[cols:]
WrapLoop(c, line, out) ==
    IF line = <<>> THEN out
    ELSE WrapLoop(c, SliceFrom(line, c.cols), Append(out, SliceTo(line, c.cols)))

\* _wrap_line without the `or [""]`: an empty line gives no entry
WrapLineDropsEmpty(c, line) == WrapLoop(c, line, <<>>)

_wrap_line(c, line) ==
    LET out == WrapLoop(c, line, <<>>)
    IN IF out = <<>> THEN << <<>> >> ELSE out

\* _pad_right that adds nothing
PadRightNothing(s, width) == s

_pad_right(s, width) ==
    LET n == width - Len(s)
    IN s \o (IF n > 0 THEN Spaces(n) ELSE <<>>)

\* _to_str(x) for a buffer entry: an entry is a str, never bytes, and str(x) of a
\* str is x
_to_str(x) == str(StrArg(x))

RECURSIVE RenderRows(_, _, _)
\* the loop of _render(): for r, text in enumerate(visible)
RenderRows(c, visible, r) ==
    IF r >= Len(visible) \/ Raised(c.lcd) THEN c
    ELSE LET t == _pad_right(SliceTo(_to_str(visible[r + 1]), c.cols), c.cols)
         IN RenderRows(LcdWrite(LcdSetCursor(c, 0, r), t), visible, r + 1)

\* the rows of _render() with the blank lines always put below the entries
VisibleBlanksBelow(c) ==
    LET visible == IF c.orientation = "bottom" THEN SliceLast(c._buffer, c.rows)
                   ELSE SliceTo(c._buffer, c.rows)
        blanks == [i \in 1..(c.rows - Len(visible)) |-> <<>>]
    IN IF Len(visible) < c.rows THEN visible \o blanks ELSE visible

\* what _render() puts on the rows, top row first
Visible(c) ==
    LET visible == IF c.orientation = "bottom" THEN SliceLast(c._buffer, c.rows)
                   ELSE SliceTo(c._buffer, c.rows)
        blanks == [i \in 1..(c.rows - Len(visible)) |-> <<>>]
    IN IF Len(visible) < c.rows
       THEN (IF c.orientation = "bottom" THEN blanks \o visible ELSE visible \o blanks)
       ELSE visible

_render(c) ==
    IF Raised(c.lcd) THEN c
    ELSE LcdFlush(RenderRows(c, Visible(c), 0))

RECURSIVE LogLines(_, _, _)
\* the loop of log(): for logical_line in text.split("\n")
LogLines(c, lines, i) ==
    IF i > Len(lines) THEN c
    ELSE LogLines([c EXCEPT !._buffer =
                      IF c.wrap THEN @ \o _wrap_line(c, lines[i])
                      ELSE Append(@, SliceTo(lines[i], c.cols))],
                  lines, i + 1)

\* log() up to the end of its loop: the entries are appended, nothing is trimmed yet
LogAppend(c, text) == LogLines(c, split(str(text), 10), 1)

\* log() that trims the history from the wrong end, keeping the oldest entries
LogKeepsOldest(c, text) ==
    IF Raised(c.lcd) THEN c
    ELSE LET c1 == LogAppend(c, text)
             c2 == IF Len(c1._buffer) > MAX_HISTORY
                   THEN [c1 EXCEPT !._buffer = SliceTo(@, MAX_HISTORY)]
                   ELSE c1
         IN _render(c2)

SimpleConsole_log(c, text) ==
    IF Raised(c.lcd) THEN c
    ELSE LET c1 == LogAppend(c, text)
             c2 == IF Len(c1._buffer) > MAX_HISTORY
                   THEN [c1 EXCEPT !._buffer = SliceLast(@, MAX_HISTORY)]
                   ELSE c1
         IN _render(c2)

\* the constructor checking the orientation only after it has set up the display
ConsoleInitValidatesLate(addr, orientation, wrap, scan, ttl) ==
    LET c1 == LcdCall(BlankConsole(ttl), "LCD2004", <<addr, FALSE>>,
                      __init__(addr, TRUE, FALSE, scan, ttl))
    IN IF Raised(c1.lcd) THEN c1
       ELSE IF orientation \notin {"bottom", "top"}
       THEN [c1 EXCEPT !.lcd.exc = ValueError]
       ELSE SimpleConsole_clear([c1 EXCEPT !.orientation = orientation,
                                           !.wrap = wrap,
                                           !.cols = COLS, !.rows = ROWS,
                                           !._buffer = <<>>])

\* SimpleConsole(addr=addr, orientation=orientation, wrap=wrap) on a bus whose scan is scan
SimpleConsole_init(addr, orientation, wrap, scan, ttl) ==
    LET c0 == BlankConsole(ttl)
    IN IF orientation \notin {"bottom", "top"}
       THEN [c0 EXCEPT !.lcd.exc = ValueError]
       ELSE LET c1 == LcdCall(c0, "LCD2004", <<addr, FALSE>>,
                              __init__(addr, TRUE, FALSE, scan, ttl))
            IN IF Raised(c1.lcd) THEN c1
               ELSE SimpleConsole_clear([c1 EXCEPT !.orientation = orientation,
                                                   !.wrap = wrap,
                                                   !.cols = COLS, !.rows = ROWS,
                                                   !._buffer = <<>>])

\* no SimpleConsole object: the driver is used on its own, and the panel is not observed
NoConsoleYet ==
    /\ console = NoConsole
    /\ lcd_calls = <<>>
    /\ logged = <<>>
    /\ hd44780 = Untracked
    /\ failed = 0

---------------------------------------------------------------------------
(* Method calls as actions.  Start is the object as the call finds it;      *)
(* Commit stores the object as the call leaves it, with what it did.        *)

Start(ttl) ==
    [address |-> address, auto_flush |-> auto_flush, display_on |-> display_on,
     cursor_on |-> cursor_on, blink_on |-> blink_on,
     backlight_state |-> backlight_state, write_buffer |-> write_buffer,
     wire |-> <<>>, exc |-> NoExc, ttl |-> ttl]

\* (the call's result is bound once, as m, rather than evaluated per field)
Commit(name, args, result) ==
  \E m \in {result} :
    /\ address' = m.address
    /\ auto_flush' = m.auto_flush
    /\ display_on' = m.display_on
    /\ cursor_on' = m.cursor_on
    /\ blink_on' = m.blink_on
    /\ backlight_state' = m.backlight_state
    /\ write_buffer' = m.write_buffer
    /\ wire' = m.wire
    /\ exc' = m.exc
    /\ op' = [name |-> name, args |-> args]
    /\ pending' = IF m.write_buffer = <<>> \/ name = "__init__" THEN 0
                  ELSE IF Len(m.write_buffer) > Len(write_buffer) THEN pending + 1
                  ELSE pending
    /\ backlight_set' = IF name = "set_backlight" THEN ~Raised(m) ELSE backlight_set
    /\ UNCHANGED <<console, lcd_calls, logged, hd44780, failed>>

\* which transport write of the call fails (0: none)
FailAt == 0..MaxFailAt
\* the same for a method that writes to the transport only when it auto-flushes
FailAtIfAuto == IF auto_flush THEN FailAt ELSE {0}
MayAppend == pending < MaxPending

\* Inputs of the general specification
CursorInputs == {<<-1, -2>>, <<8, 4>>, <<25, 1>>}
WriteInputs == {<<>>, <<321, 0>>}
GlyphInputs == {<<9, <<63, 4>>>>, <<-1, <<1, 2, 3, 4, 5, 6, 7, 8, 9>>>>}

Clear == \E f \in FailAt : Commit("clear", <<>>, clear(Start(f)))

Home == \E f \in FailAt : Commit("home", <<>>, home(Start(f)))

SetBacklight ==
    \E on \in BOOLEAN, f \in FailAt :
        Commit("set_backlight", <<on>>, set_backlight(Start(f), on))

SetDisplay ==
    \E on \in BOOLEAN, f \in FailAtIfAuto :
        MayAppend /\ Commit("set_display", <<on>>, set_display(Start(f), on))

SetCursorVisible ==
    \E on \in BOOLEAN, f \in FailAtIfAuto :
        MayAppend /\ Commit("set_cursor_visible", <<on>>, set_cursor_visible(Start(f), on))

SetBlink ==
    \E on \in BOOLEAN, f \in FailAtIfAuto :
        MayAppend /\ Commit("set_blink", <<on>>, set_blink(Start(f), on))

SetCursorCall(col, row) ==
    \E f \in FailAtIfAuto :
        MayAppend /\ Commit("set_cursor", <<col, row>>, set_cursor(Start(f), col, row))

SetCursor == \E p \in CursorInputs : SetCursorCall(p[1], p[2])

Write ==
    \E s \in WriteInputs, f \in FailAtIfAuto :
        MayAppend /\ Commit("write", <<s>>, write(Start(f), s))

ScrollLeft ==
    \E f \in FailAtIfAuto : MayAppend /\ Commit("scroll_left", <<>>, scroll_left(Start(f)))

ScrollRight ==
    \E f \in FailAtIfAuto : MayAppend /\ Commit("scroll_right", <<>>, scroll_right(Start(f)))

CreateCharCall(index, bitmap) ==
    \E f \in FailAtIfAuto :
        MayAppend /\ Commit("create_char", <<index, bitmap>>,
                            create_char(Start(f), index, bitmap))

CreateChar == \E g \in GlyphInputs : CreateCharCall(g[1], g[2])

Flush == \E f \in FailAt : Commit("flush", <<>>, flush(Start(f)))

\* Calls whose arguments were drawn with the initial state (op.name = "call")
CommandCall ==
    \E f \in FailAt :
        /\ op.name = "call" /\ op.args[2] = 0
        /\ Commit("_command", op.args, _command(Start(f), op.args[1]))

DataCall ==
    /\ op.name = "call" /\ op.args[2] = 1
    /\ Commit("_data", op.args, _data(Start(0), op.args[1]))

CursorCall ==
    /\ op.name = "call"
    /\ SetCursorCall(op.args[1], op.args[2])

GlyphCall ==
    /\ op.name = "call"
    /\ CreateCharCall(op.args[1], op.args[2])

\* LCD2004(addr=addr, backlight=backlight, auto_flush=auto) on a bus whose scan is scan
ScanAddrs == {32, 38, 39, 63, 64}
Scans ==
    {s \in UNION {[1..n -> ScanAddrs] : n \in 0..MaxScan} :
        \A i \in 1..(Len(s) - 1) : s[i] < s[i + 1]}
AddrInputs == {None, 0, 39, 60}

Construct ==
    \E addr \in AddrInputs, backlight \in BOOLEAN, auto \in BOOLEAN,
       scan \in Scans, f \in FailAt :
        /\ op.name = "new"
        /\ Commit("__init__", <<addr, backlight, auto, scan>>,
                  __init__(addr, backlight, auto, scan, f))

---------------------------------------------------------------------------
(* Specifications *)

\* the object does not exist yet
InitNew ==
    LET m == Blank(0)
    IN /\ address = m.address
       /\ auto_flush = m.auto_flush
       /\ display_on = m.display_on
       /\ cursor_on = m.cursor_on
       /\ blink_on = m.blink_on
       /\ backlight_state = m.backlight_state
       /\ write_buffer = m.write_buffer
       /\ wire = <<>>
       /\ exc = NoExc
       /\ op = [name |-> "new", args |-> <<>>]
       /\ pending = 0
       /\ backlight_set = FALSE
       /\ NoConsoleYet

\* the object as LCD2004(addr=0x27, backlight=..., auto_flush=...) returns it;
\* o is the call made last (the construction) or, in op.name = "call", to be made
Constructed(backlight, auto, o) ==
    \E m \in {__init__(39, backlight, auto, <<>>, 0)} :
       /\ address = m.address
       /\ auto_flush = m.auto_flush
       /\ display_on = m.display_on
       /\ cursor_on = m.cursor_on
       /\ blink_on = m.blink_on
       /\ backlight_state = m.backlight_state
       /\ write_buffer = m.write_buffer
       /\ wire = m.wire
       /\ exc = m.exc
       /\ op = o
       /\ pending = 0
       /\ backlight_set = FALSE
       /\ NoConsoleYet

Init ==
    \E backlight \in BOOLEAN, auto \in BOOLEAN :
        Constructed(backlight, auto,
                    [name |-> "__init__", args |-> <<39, backlight, auto, <<>>>>])

Next ==
    \/ Clear
    \/ Home
    \/ SetBacklight
    \/ SetDisplay
    \/ SetCursorVisible
    \/ SetBlink
    \/ SetCursor
    \/ Write
    \/ ScrollLeft
    \/ ScrollRight
    \/ CreateChar
    \/ Flush

Spec == Init /\ [][Next]_vars

\* construction alone, over every address argument and bus scan
NextNew == Construct
SpecInit == InitNew /\ [][NextNew]_vars

\* _command(b) and _data(b) over every byte value b
InitEnc ==
    \E backlight \in BOOLEAN, auto \in BOOLEAN, b \in 0..255, rs \in {0, 1} :
        Constructed(backlight, auto, [name |-> "call", args |-> <<b, rs>>])
NextEnc == CommandCall \/ DataCall
SpecEnc == InitEnc /\ [][NextEnc]_vars

\* set_cursor(col, row) over a range of coordinates around the grid
CursorCols == -3..23
CursorRows == -2..6
InitCursor ==
    \E backlight \in BOOLEAN, auto \in BOOLEAN, col \in CursorCols, row \in CursorRows :
        Constructed(backlight, auto, [name |-> "call", args |-> <<col, row>>])
NextCursor == CursorCall
SpecCursor == InitCursor /\ [][NextCursor]_vars

\* create_char(index, bitmap) over glyph indices and bitmaps of 0 to 9 rows
GlyphIndices == -9..17
GlyphBitmaps == {[i \in 1..n |-> v + 37 * i] : n \in 0..9, v \in {-1, 0, 31, 224}}
InitGlyph ==
    \E backlight \in BOOLEAN, auto \in BOOLEAN, i \in GlyphIndices, bm \in GlyphBitmaps :
        Constructed(backlight, auto, [name |-> "call", args |-> <<i, bm>>])
NextGlyph == GlyphCall
SpecGlyph == InitGlyph /\ [][NextGlyph]_vars

---------------------------------------------------------------------------
(* SimpleConsole method calls as actions.  The driver's variables hold the  *)
(* fields of the console's self.lcd; wire and exc are those of the console  *)
(* call.                                                                    *)

\* log() is taken only while fewer than MaxLogged entries were appended since
\* the last clear
MaxLogged == 4

\* the console as the call finds it
Running(ttl) ==
    [lcd |-> Start(ttl), orientation |-> console.orientation, wrap |-> console.wrap,
     cols |-> console.cols, rows |-> console.rows, _buffer |-> console._buffer,
     calls |-> <<>>]

\* the console as the call leaves it; appended is what `logged` becomes and panel
\* the controller as the call finds it
ConsoleCommit(name, args, result, appended, panel) ==
  \E c \in {result} :
    \E h \in {FeedWire(panel, c.lcd.wire, 1)} :
      /\ address' = c.lcd.address
      /\ auto_flush' = c.lcd.auto_flush
      /\ display_on' = c.lcd.display_on
      /\ cursor_on' = c.lcd.cursor_on
      /\ blink_on' = c.lcd.blink_on
      /\ backlight_state' = c.lcd.backlight_state
      /\ write_buffer' = c.lcd.write_buffer
      /\ wire' = c.lcd.wire
      /\ exc' = c.lcd.exc
      /\ op' = [name |-> name, args |-> args]
      /\ pending' = IF c.lcd.write_buffer = <<>> THEN 0 ELSE pending + 1
      /\ backlight_set' = backlight_set
      /\ console' = [orientation |-> c.orientation, wrap |-> c.wrap, cols |-> c.cols,
                     rows |-> c.rows, _buffer |-> c._buffer]
      /\ lcd_calls' = c.calls
      /\ logged' = appended
      /\ hd44780' = h
      /\ failed' = LET before == IF op.name = "SimpleConsole.log" /\ exc # NoExc
                                  THEN failed ELSE 0
                   IN IF name # "SimpleConsole.log" THEN 0
                      ELSE IF Raised(c.lcd) THEN before + 1
                      ELSE before

\* a SimpleConsole object was returned to the caller
ConsoleExists ==
    \/ op.name \in {"SimpleConsole.log", "SimpleConsole.clear"}
    \/ op.name = "SimpleConsole" /\ exc = NoExc

\* which transport write of a log() fails (0: none): the first or the second
\* chunk of the render's flush
ConsoleFailAt == {0, 1, 2}
\* the same for clear(): the first write of its closing flush (its first write
\* is the one of lcd.clear())
ConsoleClearFailAt == {0, 2}
\* the same for the constructor: 1 hits LCD2004's wake-up, 5 and 7 the first clear()
ConsoleInitFailAt == {0, 1, 5, 7}

Orientations == {"bottom", "top", "middle"}
ConsoleAddrs == {None, 39}
ConsoleScans == {<<>>, <<39>>}

\* 45 different characters, "0" onwards (no "a", "b" or "c" among them)
Long45 == [i \in 1..45 |-> 47 + i]
\* arguments of log(): "ab\nc" and the 45 characters
LogInputs == {StrArg(<<97, 98, 10, 99>>), StrArg(Long45)}

ConsoleConstruct ==
    \E addr \in ConsoleAddrs, orientation \in Orientations, wrap \in BOOLEAN,
       scan \in ConsoleScans, f \in ConsoleInitFailAt :
        /\ op.name = "new"
        /\ ConsoleCommit("SimpleConsole", <<addr, orientation, wrap, scan>>,
                         SimpleConsole_init(addr, orientation, wrap, scan, f),
                         <<>>, MarkStale(PowerOn))

ConsoleLogCall(text) ==
    \E f \in ConsoleFailAt :
        ConsoleCommit("SimpleConsole.log", <<text>>,
                      SimpleConsole_log(Running(f), text),
                      logged \o SliceFrom(LogAppend(Running(f), text)._buffer,
                                          Len(console._buffer)),
                      hd44780)

ConsoleLog ==
    \E text \in LogInputs :
        /\ ConsoleExists
        /\ Len(logged) < MaxLogged
        /\ ConsoleLogCall(text)

ConsoleClear ==
    \E f \in ConsoleClearFailAt :
        /\ ConsoleExists
        /\ ConsoleCommit("SimpleConsole.clear", <<>>, SimpleConsole_clear(Running(f)),
                         <<>>, MarkStale(hd44780))

\* log(text) with the text drawn with the initial state (op.name = "call")
LogCall ==
    /\ op.name = "call"
    /\ ConsoleLogCall(op.args[1])

\* the console as SimpleConsole(addr=0x27, orientation=..., wrap=...) returns it;
\* o is the call made last (the construction) or, in op.name = "call", to be made
ConsoleConstructed(orientation, wrap, o) ==
  \E c \in {SimpleConsole_init(39, orientation, wrap, <<>>, 0)} :
    \E h \in {FeedWire(MarkStale(PowerOn), c.lcd.wire, 1)} :
      /\ address = c.lcd.address
      /\ auto_flush = c.lcd.auto_flush
      /\ display_on = c.lcd.display_on
      /\ cursor_on = c.lcd.cursor_on
      /\ blink_on = c.lcd.blink_on
      /\ backlight_state = c.lcd.backlight_state
      /\ write_buffer = c.lcd.write_buffer
      /\ wire = c.lcd.wire
      /\ exc = c.lcd.exc
      /\ op = o
      /\ pending = 0
      /\ backlight_set = FALSE
      /\ console = [orientation |-> c.orientation, wrap |-> c.wrap, cols |-> c.cols,
                    rows |-> c.rows, _buffer |-> c._buffer]
      /\ lcd_calls = c.calls
      /\ logged = <<>>
      /\ hd44780 = h
      /\ failed = 0

\* the console from its construction on, over orientations, wrap modes and texts
NextConsole ==
    \/ ConsoleConstruct
    \/ ConsoleLog
    \/ ConsoleClear
SpecConsole == InitNew /\ [][NextConsole]_vars

\* one log(text) on a fresh console, over texts of every length from 0 to 45,
\* with and without newlines, and over some integers
LogLengths == 0..45
\* the text of n characters "A", "B", ... with a newline in place of the characters
\* at the positions in nl
Text(n, nl) == [i \in 1..n |-> IF i \in nl THEN 10 ELSE 64 + i]
NewlinePlaces == {{}, {1}, {21}, {3, 4}, {20, 45}}
LogTexts ==
    {StrArg(Text(n, nl)) : n \in LogLengths, nl \in NewlinePlaces}
        \cup {StrArg(Long45), IntArg(-7), IntArg(0), IntArg(1234567890)}
InitLog ==
    \E orientation \in {"bottom", "top"}, wrap \in BOOLEAN, text \in LogTexts :
        ConsoleConstructed(orientation, wrap, [name |-> "call", args |-> <<text>>])
NextLog == LogCall
SpecLog == InitLog /\ [][NextLog]_vars

---------------------------------------------------------------------------
(* Observations used by the properties *)

RECURSIVE BytesOf(_, _)
\* the bytes of the events of w whose kind is in kinds, in order
BytesOf(w, kinds) ==
    IF w = <<>> THEN <<>>
    ELSE (IF Head(w).kind \in kinds THEN Head(w).data ELSE <<>>) \o BytesOf(Tail(w), kinds)

\* the bytes the transport accepted during a call
Delivered(w) == BytesOf(w, {"write"})

\* the four bus-cycle bytes of logical byte b, written out arithmetically
FourBytes(b, rs, bl) ==
    LET hi == (b \div 16) * 16 + bl + rs
        lo == (b % 16) * 16 + bl + rs
    IN <<hi + 4, hi, lo + 4, lo>>

---------------------------------------------------------------------------
(* C1: sending a logical byte b as a command (RS=0) or as data (RS=1)       *)
(* appends exactly four bytes to the write buffer: high nibble | backlight  *)
(* | RS | enable, the same with enable cleared, low nibble (shifted up) |   *)
(* backlight | RS | enable, the same with enable cleared; the RW bit is 0   *)
(* in all four.  What the call appended is seen as the bytes it delivered   *)
(* followed by the bytes it left buffered.                                  *)
C1_Step ==
    (op'.name \in {"_command", "_data"} /\ exc' = NoExc) =>
        LET b == op'.args[1]
            rs == IF op'.name = "_data" THEN 1 ELSE 0
            out == Delivered(wire') \o write_buffer'
            n == Len(write_buffer)
        IN /\ out = write_buffer \o FourBytes(b, rs, backlight_state)
           /\ \A i \in (n + 1)..Len(out) : Bit(out[i], 2) = 0
           /\ Bit(out[n + 1], 4) = 1 /\ Bit(out[n + 2], 4) = 0
           /\ Bit(out[n + 3], 4) = 1 /\ Bit(out[n + 4], 4) = 0
C1_SendByteEncoding == [][C1_Step]_vars

\* data byte 0xA5 sent with the backlight on, behind the 8 bytes a manual-flush
\* construction leaves buffered
C1_Witness ==
    /\ op.name = "_data" /\ op.args[1] = 165
    /\ backlight_state = 8
    /\ Len(write_buffer) = 12
    /\ SubSeq(write_buffer, 9, 12) = <<173, 169, 93, 89>>

---------------------------------------------------------------------------
\* what a call added to the byte stream: the bytes it delivered, then the bytes
\* it left in the buffer
Emitted == Delivered(wire') \o write_buffer'

\* the call raised nothing of its own: it returned, or the transport refused a
\* write and that refusal is the last thing the call saw
OnlyTransportFailure ==
    \/ exc' = NoExc
    \/ /\ exc' = TransportError
       /\ wire' # <<>>
       /\ wire'[Len(wire')].kind = "fail"

---------------------------------------------------------------------------
(* C2: clear() and home(), in either auto-flush mode and whatever was       *)
(* buffered: the previously buffered bytes followed by the command's four   *)
(* bytes are delivered to the transport, then the settle delay (>= 1.5 ms)  *)
(* runs as the last event of the call, so nothing is delivered during or    *)
(* after it, and the write buffer is empty on return.                       *)
C2_Step ==
    (op'.name \in {"clear", "home"} /\ exc' = NoExc) =>
        LET cmd == IF op'.name = "clear" THEN 1 ELSE 2
            n == Len(wire')
        IN /\ n >= 2
           /\ wire'[n].kind = "sleep" /\ wire'[n].us >= 1500
           /\ \A i \in 1..(n - 1) : wire'[i].kind = "write"
           /\ Delivered(wire') = write_buffer \o FourBytes(cmd, 0, backlight_state)
           /\ write_buffer' = <<>>
C2_ClearHomeTiming == [][C2_Step]_vars

\* home() on a manual-flush object with 8 bytes buffered: two writes, then the delay
C2_Witness ==
    /\ op.name = "home" /\ exc = NoExc /\ ~auto_flush
    /\ Len(wire) = 3
    /\ Len(wire[1].data) = 8 /\ Len(wire[2].data) = 4
    /\ wire[3] = SleepEv(2000)
    /\ write_buffer = <<>>

---------------------------------------------------------------------------
(* C3: for all integers col and row, negative and over-range included,      *)
(* set_cursor never raises because of its arguments (the one exception it   *)
(* can pass on is the transport refusing the auto-flush's write) and emits  *)
(* exactly one command (four bytes, RS=0): 0x80 | (rowOffset[r] + c) with   *)
(* c = col clamped to 0..cols-1 and r = row clamped to 0..rows-1; the       *)
(* address stays below 0x80, clear of the command bit.                      *)
Clamp(x, lo, hi) == IF x < lo THEN lo ELSE IF x > hi THEN hi ELSE x

C3_Step ==
    (op'.name = "set_cursor") =>
        LET c == Clamp(op'.args[1], 0, COLS - 1)
            r == Clamp(op'.args[2], 0, ROWS - 1)
            a == _ROW_OFFSETS[r + 1] + c
        IN /\ OnlyTransportFailure
           /\ exc' # NoExc => auto_flush
           /\ a < 128
           /\ exc' = NoExc => Emitted = write_buffer \o FourBytes(128 + a, 0, backlight_state)
C3_SetCursorClamps == [][C3_Step]_vars

\* set_cursor(23, -2) lands on column 19 of row 0: command 0x93
C3_Witness ==
    /\ op.name = "set_cursor" /\ op.args = <<23, -2>> /\ exc = NoExc
    /\ ~auto_flush /\ backlight_state = 0
    /\ SubSeq(write_buffer, 9, 12) = <<148, 144, 52, 48>>

---------------------------------------------------------------------------
(* C4: for every integer index and every bitmap of any length, create_char  *)
(* never raises because of its arguments (the one exception it can pass on  *)
(* is the transport refusing the auto-flush's write) and emits exactly one  *)
(* set-CGRAM-address command with address (index mod 8) * 8 followed by     *)
(* exactly 8 data bytes, the i-th being bitmap[i] mod 32 when the bitmap    *)
(* has an i-th row and 0 otherwise, so the top 3 bits of every data byte    *)
(* are zero.                                                                *)
GlyphRow(bitmap, i) == IF i <= Len(bitmap) THEN bitmap[i] % 32 ELSE 0

C4_Step ==
    (op'.name = "create_char") =>
        LET index == op'.args[1]
            bitmap == op'.args[2]
            bl == backlight_state
            n == Len(write_buffer)
        IN /\ OnlyTransportFailure
           /\ exc' # NoExc => auto_flush
           /\ exc' = NoExc =>
                /\ Len(Emitted) = n + 36
                /\ SubSeq(Emitted, 1, n) = write_buffer
                /\ SubSeq(Emitted, n + 1, n + 4) = FourBytes(64 + (index % 8) * 8, 0, bl)
                /\ \A i \in 1..8 :
                     /\ SubSeq(Emitted, n + 4 * i + 1, n + 4 * i + 4)
                          = FourBytes(GlyphRow(bitmap, i), 1, bl)
                     \* the data byte's bits 7..5 travel as bits 7..5 of its high nibble
                     /\ Emitted[n + 4 * i + 1] < 32
C4_CreateCharMasks == [][C4_Step]_vars

\* create_char(-9, <<261, 298>>): slot 7, rows 5 and 10, then six empty rows
C4_Witness ==
    /\ op.name = "create_char" /\ op.args = <<-9, <<261, 298>>>> /\ exc = NoExc
    /\ ~auto_flush /\ backlight_state = 0
    /\ Len(write_buffer) = 44
    /\ SubSeq(write_buffer, 9, 12) = FourBytes(120, 0, 0)
    /\ SubSeq(write_buffer, 13, 16) = <<5, 1, 85, 81>>
    /\ SubSeq(write_buffer, 41, 44) = <<5, 1, 5, 1>>

---------------------------------------------------------------------------
(* C5: set_display, set_cursor_visible and set_blink each change only their *)
(* own latch, leave the other two and the backlight latch unchanged, and    *)
(* emit exactly one display-control command 0x08 | 4*display | 2*cursor |   *)
(* 1*blink computed from the latches after the change; set_backlight        *)
(* changes only the backlight latch.                                        *)
AsBit(on) == IF on THEN 1 ELSE 0

C5_Step ==
    /\ op'.name = "set_display" =>
         /\ display_on' = AsBit(op'.args[1])
         /\ cursor_on' = cursor_on /\ blink_on' = blink_on
    /\ op'.name = "set_cursor_visible" =>
         /\ cursor_on' = AsBit(op'.args[1])
         /\ display_on' = display_on /\ blink_on' = blink_on
    /\ op'.name = "set_blink" =>
         /\ blink_on' = AsBit(op'.args[1])
         /\ display_on' = display_on /\ cursor_on' = cursor_on
    /\ op'.name \in {"set_display", "set_cursor_visible", "set_blink"} =>
         /\ backlight_state' = backlight_state
         /\ exc' = NoExc =>
              Emitted = write_buffer \o
                  FourBytes(8 + 4 * display_on' + 2 * cursor_on' + blink_on', 0,
                            backlight_state')
    /\ op'.name = "set_backlight" =>
         /\ backlight_state' = 8 * AsBit(op'.args[1])
         /\ display_on' = display_on /\ cursor_on' = cursor_on /\ blink_on' = blink_on
C5_LatchFrame == [][C5_Step]_vars

\* set_cursor_visible(TRUE) while blink is on and the display is off: command 0x0B
C5_Witness ==
    /\ op.name = "set_cursor_visible" /\ op.args = <<TRUE>> /\ exc = NoExc
    /\ display_on = 0 /\ cursor_on = 1 /\ blink_on = 1
    /\ auto_flush /\ backlight_state = 8
    /\ Delivered(wire) = <<12, 8, 188, 184>>

---------------------------------------------------------------------------
(* C6: set_backlight(on) hands the transport exactly one byte, in which     *)
(* only the backlight bit may be set (enable, RS and the data nibble are    *)
(* zero), and leaves the write buffer as it was.                            *)
C6_Step ==
    (op'.name = "set_backlight") =>
        /\ write_buffer' = write_buffer
        /\ Len(wire') = 1
        /\ wire'[1].kind = (IF exc' = NoExc THEN "write" ELSE "fail")
        /\ wire'[1].data = <<8 * AsBit(op'.args[1])>>
        /\ Bit(wire'[1].data[1], 4) = 0
C6_BacklightStandaloneByte == [][C6_Step]_vars

\* set_backlight(FALSE) while 8 bytes are buffered: one byte 0x00 on the bus
C6_Witness ==
    /\ op.name = "set_backlight" /\ op.args = <<FALSE>> /\ exc = NoExc
    /\ Len(write_buffer) = 8
    /\ wire = <<WriteEv(address, <<0>>)>>

---------------------------------------------------------------------------
(* C7: after set_backlight(x) has returned, every byte delivered to the     *)
(* transport carries backlight bit x until set_backlight is called again,   *)
(* for every sequence of calls and in both auto-flush modes, bytes buffered *)
(* before the call included.                                                *)
C7_Step ==
    (backlight_set' /\ op'.name # "set_backlight") =>
        \A i \in 1..Len(Delivered(wire')) :
            8 * Bit(Delivered(wire')[i], 8) = backlight_state'
C7_BacklightPersists == [][C7_Step]_vars

---------------------------------------------------------------------------
(* C8: a flush, explicit or implied by another call, hands the buffered     *)
(* bytes to the transport in buffer order in chunks of at most 8 bytes and  *)
(* leaves the write buffer empty.  If a write fails the call raises, the    *)
(* failed write is the last transport call it makes (no later chunk, no     *)
(* retry) and the write buffer is empty afterwards, so a later flush sends  *)
(* none of the discarded bytes.                                             *)
TransportEvents(w) == SelectSeq(w, LAMBDA e : e.kind \in {"write", "fail"})

IsPrefix(p, q) == Len(p) <= Len(q) /\ SubSeq(q, 1, Len(p)) = p

C8_Step ==
    (op'.name # "set_backlight") =>
        LET t == TransportEvents(wire')
            handed == BytesOf(wire', {"write", "fail"})
            last == IF wire' = <<>> THEN SleepEv(0) ELSE wire'[Len(wire')]
        IN /\ \A i \in 1..Len(t) :
                /\ t[i].addr = address
                /\ Len(t[i].data) >= 1 /\ Len(t[i].data) <= 8
                /\ i < Len(t) => Len(t[i].data) = 8 /\ t[i].kind = "write"
           \* buffer order: the buffered bytes come first, and a call that returns
           \* has sent all of them
           /\ IsPrefix(handed, write_buffer) \/ IsPrefix(write_buffer, handed)
           /\ (exc' = NoExc /\ t # <<>>) => IsPrefix(write_buffer, Delivered(wire'))
           /\ t # <<>> => write_buffer' = <<>>
           /\ op'.name = "flush" =>
                /\ write_buffer' = <<>>
                /\ IsPrefix(handed, write_buffer)
                /\ exc' = NoExc => Delivered(wire') = write_buffer
           \* a failed write raises, and is the last thing the call does
           /\ (exc' # NoExc) <=> (t # <<>> /\ t[Len(t)].kind = "fail")
           /\ exc' # NoExc => exc' = TransportError /\ last.kind = "fail"
C8_FlushChunksAndFailure == [][C8_Step]_vars

\* an explicit flush of 12 buffered bytes whose second write fails
C8_Witness ==
    /\ op.name = "flush" /\ exc = TransportError
    /\ Len(wire) = 2
    /\ wire[1].kind = "write" /\ Len(wire[1].data) = 8
    /\ wire[2].kind = "fail" /\ Len(wire[2].data) = 4
    /\ write_buffer = <<>>

---------------------------------------------------------------------------
(* C9: with auto-flush enabled, every public call that returns normally     *)
(* leaves the write buffer empty, all the bytes it produced having been     *)
(* delivered to the transport.                                              *)
Produces(o) ==
    CASE o.name = "write" -> 4 * Len(o.args[1])
      [] o.name = "create_char" -> 36
      [] o.name = "set_backlight" -> 1
      [] o.name = "flush" -> 0
      [] o.name = "__init__" -> 29
      [] OTHER -> 4

C9_AutoFlushDrains ==
    (auto_flush /\ exc = NoExc) =>
        /\ write_buffer = <<>>
        /\ Len(Delivered(wire)) = Produces(op)

\* an auto-flushed write of two characters: 8 bytes delivered, nothing buffered
C9_Witness ==
    /\ auto_flush /\ exc = NoExc
    /\ op.name = "write" /\ op.args = << <<321, 0>> >>
    /\ Len(Delivered(wire)) = 8
    /\ write_buffer = <<>>

---------------------------------------------------------------------------
(* C10: address resolution.  An explicitly supplied address is used and the *)
(* bus is not scanned; otherwise the bus is scanned once and the address is *)
(* 0x27 if the scan holds it, else 0x3F if the scan holds it, else the      *)
(* first address of the scan; an empty scan fails with the device-not-found *)
(* error.                                                                   *)
Holds(scan, a) == \E i \in 1..Len(scan) : scan[i] = a

---------------------------------------------------------------------------
(* C11: a construction with no explicit address on a bus whose scan is      *)
(* empty fails with the device-not-found error, and up to that point        *)
(* nothing was handed to the transport (no write, not even a refused one),  *)
(* no wait was started and no bus cycle was queued in the write buffer: the *)
(* scan is the only thing the call did.                                     *)
C11_AbortBeforeBus ==
    (op.name = "__init__" /\ op.args[1] = None /\ op.args[4] = <<>>) =>
        /\ exc = NoDeviceError
        /\ TransportEvents(wire) = <<>>
        /\ write_buffer = <<>>
        /\ wire = <<ScanEv(<<>>)>>

\* LCD2004(...) without addr on an empty bus
C11_Witness ==
    /\ op.name = "__init__" /\ op.args[1] = None /\ op.args[4] = <<>>
    /\ exc = NoDeviceError
    /\ wire = <<ScanEv(<<>>)>> /\ write_buffer = <<>>

---------------------------------------------------------------------------
\* the places of the newlines of s, and its k-th logical line (k from 1)
Newlines(s) == {i \in 1..Len(s) : s[i] = 10}
LineStart(s, k) ==
    IF k = 1 THEN 1
    ELSE 1 + CHOOSE i \in Newlines(s) : Cardinality({j \in Newlines(s) : j < i}) = k - 2
LineEnd(s, k) ==
    IF k = Cardinality(Newlines(s)) + 1 THEN Len(s)
    ELSE (CHOOSE i \in Newlines(s) : Cardinality({j \in Newlines(s) : j < i}) = k - 1) - 1
Line(s, k) == SubSeq(s, LineStart(s, k), LineEnd(s, k))

\* the entries one logical line of n characters is to give: with wrap,
\* max(1, ceil(n / cols)) slices of cols characters (the last one shorter);
\* without, its first cols characters
Slices(line, wrap) ==
    LET n == Len(line)
    IN IF wrap
       THEN [j \in 1..(IF n = 0 THEN 1 ELSE (n + COLS - 1) \div COLS) |->
                SubSeq(line, (j - 1) * COLS + 1, Min(j * COLS, n))]
       ELSE <<SubSeq(line, 1, Min(COLS, n))>>

RECURSIVE SlicesFrom(_, _, _)
\* the entries the logical lines k, k+1, ... of s are to give
SlicesFrom(s, k, wrap) ==
    IF k > Cardinality(Newlines(s)) + 1 THEN <<>>
    ELSE Slices(Line(s, k), wrap) \o SlicesFrom(s, k + 1, wrap)

\* the characters of the text of a str argument; of an int, its decimal numeral
Numeral(n) ==
    CASE n = -7 -> <<45, 55>>
      [] n = 0 -> <<48>>
      [] n = 1234567890 -> <<49, 50, 51, 52, 53, 54, 55, 56, 57, 48>>
TextOf(x) == IF x.type = "str" THEN x.val ELSE Numeral(x.val[1])

(* C12: log(text) on a console splits the text at its newlines and appends, *)
(* for each logical line in order: with wrap on, the consecutive            *)
(* cols-character slices of the line (max(1, ceil(n/cols)) of them, an      *)
(* empty line giving one empty entry); with wrap off, the first cols        *)
(* characters as one entry.  Every entry of the buffer is at most cols      *)
(* characters long.  The entries are appended whether or not the render     *)
(* that follows succeeds.                                                   *)
C12_LogAppendsSlices ==
    (op.name = "SimpleConsole.log") =>
        /\ logged = SlicesFrom(TextOf(op.args[1]), 1, console.wrap)
        /\ \A i \in 1..Len(logged) : Len(logged[i]) <= COLS
        /\ \A i \in 1..Len(console._buffer) : Len(console._buffer[i]) <= COLS
        /\ \A i \in 1..Len(console._buffer) :
               console._buffer[i] \in {logged[j] : j \in 1..Len(logged)}

\* 45 characters with wrap on: entries of 20, 20 and 5 characters
C12_Witness ==
    /\ op.name = "SimpleConsole.log" /\ op.args[1] = StrArg(Long45)
    /\ console.wrap
    /\ logged = <<SubSeq(Long45, 1, 20), SubSeq(Long45, 21, 40), SubSeq(Long45, 41, 45)>>
    /\ console._buffer = logged

\* 45 characters with wrap off: one entry of 20 characters
C12_WitnessTruncated ==
    /\ op.name = "SimpleConsole.log" /\ op.args[1] = StrArg(Long45)
    /\ ~console.wrap
    /\ console._buffer = <<SubSeq(Long45, 1, 20)>>

---------------------------------------------------------------------------
(* C13: the console buffer never holds more than MAX_HISTORY entries; after *)
(* every log(), failed renders included, it is the last                     *)
(* min(MAX_HISTORY, total) of all the entries appended since the console    *)
(* was last cleared, in their order of arrival; after clear() it is empty.  *)
C13_HistoryBound ==
    /\ Len(console._buffer) <= MAX_HISTORY
    /\ (op.name = "SimpleConsole.log") =>
           LET total == Len(logged)
               kept == Min(MAX_HISTORY, total)
           IN console._buffer = SubSeq(logged, total - kept + 1, total)
    /\ (op.name = "SimpleConsole.clear") => console._buffer = <<>>

\* five entries appended with wrap off, "ab" being the oldest: it is gone, "c" is now first
C13_Witness ==
    /\ op.name = "SimpleConsole.log" /\ ~console.wrap
    /\ Len(logged) = 5
    /\ logged[1] = <<97, 98>>
    /\ console._buffer = SubSeq(logged, 2, 5)
    /\ console._buffer[1] = <<99>>

---------------------------------------------------------------------------
\* the character codes the panel shows on row r (from 0), left to right
RowShown(r) == [i \in 1..COLS |-> Shown(hd44780, r, i - 1).ch]
\* a buffer entry as a full row: the entry, then spaces
Padded(entry) == [i \in 1..COLS |-> IF i <= Len(entry) THEN entry[i] ELSE 32]
BlankRow == [i \in 1..COLS |-> 32]

(* C14: in "bottom" orientation, after every log() whose render succeeded,  *)
(* the panel shows the most recent k = min(rows, len(buffer)) entries of    *)
(* the buffer on its last k rows in order of arrival, the newest on the     *)
(* last row, and the rows above them are blank.                             *)
C14_BottomOrientation ==
    (op.name = "SimpleConsole.log" /\ exc = NoExc /\ console.orientation = "bottom") =>
        LET n == Len(console._buffer)
            k == Min(ROWS, n)
        IN /\ \A r \in 0..(ROWS - k - 1) : RowShown(r) = BlankRow
           /\ \A j \in 0..(k - 1) : RowShown(ROWS - 1 - j) = Padded(console._buffer[n - j])

\* "ab" and "c" logged on a fresh console: two blank rows, then "ab", then "c"
C14_Witness ==
    /\ op.name = "SimpleConsole.log" /\ exc = NoExc /\ console.orientation = "bottom"
    /\ console._buffer = << <<97, 98>>, <<99>> >>
    /\ RowShown(0) = BlankRow /\ RowShown(1) = BlankRow
    /\ RowShown(2) = Padded(<<97, 98>>)
    /\ RowShown(3) = Padded(<<99>>)
    /\ hd44780.display

---------------------------------------------------------------------------
(* C15: in "top" orientation, after every log() whose render succeeded, the *)
(* panel shows the buffer entries most recent first: the newest entry on    *)
(* row 0, the one before it on row 1, and so on for k = min(rows,           *)
(* len(buffer)) entries, and the rows below them are blank.                 *)
C15_TopOrientation ==
    (op.name = "SimpleConsole.log" /\ exc = NoExc /\ console.orientation = "top") =>
        LET n == Len(console._buffer)
            k == Min(ROWS, n)
        IN /\ \A j \in 0..(k - 1) : RowShown(j) = Padded(console._buffer[n - j])
           /\ \A r \in k..(ROWS - 1) : RowShown(r) = BlankRow

\* what the program does in "top" orientation: the entries in order of arrival from
\* row 0 down, the oldest on row 0, blank rows below
C15_TopShowsOldestFirst ==
    (op.name = "SimpleConsole.log" /\ exc = NoExc /\ console.orientation = "top") =>
        LET n == Len(console._buffer)
            k == Min(ROWS, n)
        IN /\ \A j \in 1..k : RowShown(j - 1) = Padded(console._buffer[j])
           /\ \A r \in k..(ROWS - 1) : RowShown(r) = BlankRow

---------------------------------------------------------------------------
\* the bus cycles of one row: the set-address command of row r, then the characters
RECURSIVE DataBytes(_, _, _)
DataBytes(t, i, bl) ==
    IF i > Len(t) THEN <<>> ELSE FourBytes(t[i], 1, bl) \o DataBytes(t, i + 1, bl)
RowBytes(r, t, bl) == FourBytes(128 + _ROW_OFFSETS[r + 1], 0, bl) \o DataBytes(t, 1, bl)

(* C16: every render (every log(), whatever the orientation and the buffer) *)
(* makes exactly 2*rows + 1 calls on the display: set_cursor(0, r) and a    *)
(* write of exactly cols characters (the row's text, then spaces) for       *)
(* r = 0 .. rows-1 in this order, then one flush.  No transport event       *)
(* precedes the flush, which hands over the bus cycles of the four rows and *)
(* nothing else.                                                            *)
C16_RenderPairsThenFlush ==
    (op.name = "SimpleConsole.log") =>
        /\ Len(lcd_calls) = 2 * ROWS + 1
        /\ \A r \in 0..(ROWS - 1) :
             LET sc == lcd_calls[2 * r + 1]
                 wr == lcd_calls[2 * r + 2]
             IN /\ sc.name = "set_cursor" /\ sc.args = <<0, r>> /\ sc.at = 0
                /\ wr.name = "write" /\ wr.at = 0
                /\ Len(wr.args[1]) = COLS
                /\ \E e \in {<<>>} \cup {console._buffer[i] : i \in 1..Len(console._buffer)} :
                       wr.args[1] = Padded(e)
        /\ lcd_calls[2 * ROWS + 1].name = "flush"
        /\ lcd_calls[2 * ROWS + 1].at = 0
        /\ \A i \in 1..Len(wire) : wire[i].kind \in {"write", "fail"}
        /\ BytesOf(wire, {"write", "fail"})
             = SubSeq(RowBytes(0, lcd_calls[2].args[1], backlight_state)
                        \o RowBytes(1, lcd_calls[4].args[1], backlight_state)
                        \o RowBytes(2, lcd_calls[6].args[1], backlight_state)
                        \o RowBytes(3, lcd_calls[8].args[1], backlight_state),
                      1, Len(BytesOf(wire, {"write", "fail"})))
        /\ exc = NoExc => Len(Delivered(wire)) = 4 * ROWS * (1 + COLS)
        /\ write_buffer = <<>>

\* a render of "ab" and "c": 9 calls, the 336 bytes go out in 42 writes after the last row
C16_Witness ==
    /\ op.name = "SimpleConsole.log" /\ exc = NoExc
    /\ console._buffer = << <<97, 98>>, <<99>> >>
    /\ Len(lcd_calls) = 9
    /\ lcd_calls[7] = [name |-> "set_cursor", args |-> <<0, 3>>, at |-> 0]
    /\ lcd_calls[8] = [name |-> "write", args |-> <<Padded(<<99>>)>>, at |-> 0]
    /\ lcd_calls[9] = [name |-> "flush", args |-> <<>>, at |-> 0]
    /\ Len(wire) = 42

---------------------------------------------------------------------------
\* the calls clear() is to make on the display: clear(), then set_cursor(0, r) and a
\* write of cols spaces for each row, then flush(); `at` is left out
ClearCalls ==
    << [name |-> "clear", args |-> <<>>] >>
      \o [i \in 1..(2 * ROWS) |->
            IF i % 2 = 1 THEN [name |-> "set_cursor", args |-> <<0, (i - 1) \div 2>>]
            ELSE [name |-> "write", args |-> <<BlankRow>>]]
      \o << [name |-> "flush", args |-> <<>>] >>
CallsMade == [i \in 1..Len(lcd_calls) |-> [name |-> lcd_calls[i].name, args |-> lcd_calls[i].args]]

(* C17: a console clear() that returns has emptied the console buffer, made *)
(* the display-clear call, then a set_cursor(0, r) and a write of cols      *)
(* spaces for every row, then one flush, and the write buffer was handed to *)
(* the transport exactly once in the whole operation, after all the rows    *)
(* had been buffered: no transport write precedes the closing flush.        *)
C17_ClearDrainsOnce ==
    (op.name = "SimpleConsole.clear" /\ exc = NoExc) =>
        /\ console._buffer = <<>>
        /\ CallsMade = ClearCalls
        /\ \A i \in 1..Len(wire) :
               wire[i].kind = "write" => i > lcd_calls[Len(lcd_calls)].at

(* C17, as the program does it: the calls are those, and the flush call is  *)
(* the only one the console makes, but the write buffer is handed to the    *)
(* transport twice.  The display-clear call delivers its own command at     *)
(* once (one write of four bytes, nothing else being buffered) and waits    *)
(* 2 ms, before any row is buffered; the closing flush then delivers the    *)
(* bus cycles of the four rows of spaces and nothing else.                  *)
C17_ClearDrainsTwice ==
    /\ (op.name = "SimpleConsole.clear") => console._buffer = <<>> /\ write_buffer = <<>>
    /\ (op.name = "SimpleConsole.clear" /\ exc = NoExc) =>
        /\ CallsMade = ClearCalls
        /\ lcd_calls[1].at = 0
        /\ \A i \in 2..Len(lcd_calls) : lcd_calls[i].at = 2
        /\ wire[1] = WriteEv(address, FourBytes(1, 0, backlight_state))
        /\ wire[2] = SleepEv(2000)
        /\ \A i \in 3..Len(wire) : wire[i].kind = "write"
        /\ Delivered(SubSeq(wire, 3, Len(wire)))
             = RowBytes(0, BlankRow, backlight_state) \o RowBytes(1, BlankRow, backlight_state)
                 \o RowBytes(2, BlankRow, backlight_state)
                 \o RowBytes(3, BlankRow, backlight_state)

\* clear() of a panel that showed text: the clear command, the wait, 42 writes
C17_Witness ==
    /\ op.name = "SimpleConsole.clear" /\ exc = NoExc /\ hd44780.wiped
    /\ Len(lcd_calls) = 10 /\ lcd_calls[10] = [name |-> "flush", args |-> <<>>, at |-> 2]
    /\ Len(wire) = 44
    /\ wire[1].data = <<12, 8, 28, 24>>
    /\ \A r \in 0..(ROWS - 1) : RowShown(r) = BlankRow

---------------------------------------------------------------------------
\* the characters of the entries appended since the console was last cleared
LoggedChars == UNION {{logged[i][j] : j \in 1..Len(logged[i])} : i \in 1..Len(logged)}

(* C18: once clear() has been called, and through every log() that follows  *)
(* it, no cell of the panel's grid shows a character that was written       *)
(* before that clear(): every cell was written since the clear() began, and *)
(* shows a space or a character of an entry logged after it.  (The          *)
(* transport accepts every write of the clear(); a later log() may fail.)   *)
C18_NoResidueAfterClear ==
    (op.name \in {"SimpleConsole.clear", "SimpleConsole.log"}) =>
        \A r \in 0..(ROWS - 1), col \in 0..(COLS - 1) :
            LET cell == Shown(hd44780, r, col)
            IN /\ ~cell.stale
               /\ cell.ch = 32 \/ cell.ch \in LoggedChars

\* the panel showed text when clear() was called; after the log() of the 45
\* characters that followed it shows their last five and no "a", "b" or "c"
C18_Witness ==
    /\ op.name = "SimpleConsole.log" /\ exc = NoExc
    /\ hd44780.wiped
    /\ console.wrap /\ console.orientation = "bottom"
    /\ logged = <<SubSeq(Long45, 1, 20), SubSeq(Long45, 21, 40), SubSeq(Long45, 41, 45)>>
    /\ RowShown(0) = BlankRow
    /\ RowShown(3) = Padded(SubSeq(Long45, 41, 45))
    /\ \A r \in 0..(ROWS - 1), col \in 0..(COLS - 1) :
           Shown(hd44780, r, col).ch \notin {97, 98, 99}

---------------------------------------------------------------------------
(* C19: SimpleConsole(orientation=x) with x other than "bottom" or "top"    *)
(* raises the ValueError that names the two accepted values, before the     *)
(* display is set up: no call is made on the display driver, the bus is not *)
(* scanned, nothing is written to the transport or queued, no wait is       *)
(* started, and no field of the console is assigned (x is not replaced by   *)
(* an accepted value).  An accepted orientation is never rejected and is    *)
(* stored as given.                                                         *)
C19_OrientationRejectedFirst ==
    (op.name = "SimpleConsole") =>
        IF op.args[2] \notin {"bottom", "top"}
        THEN /\ exc = ValueError
             /\ wire = <<>>
             /\ lcd_calls = <<>>
             /\ write_buffer = <<>>
             /\ console = NoConsole
             /\ ~ConsoleExists
        ELSE /\ exc # ValueError
             /\ exc = NoExc => console.orientation = op.args[2]

\* SimpleConsole(orientation="middle") on a bus that has a device to find
C19_Witness ==
    /\ op.name = "SimpleConsole" /\ op.args = <<None, "middle", TRUE, <<39>>>>
    /\ exc = ValueError
    /\ wire = <<>> /\ lcd_calls = <<>>

---------------------------------------------------------------------------
\* the nibbles the initialization is to strobe, in order: three wake nibbles 0x3,
\* 0x2, then the commands 0x28, 0x08, 0x01, 0x06 and 0x0C, each high nibble first
InitNibbles == <<3, 3, 3, 2, 2, 8, 0, 8, 0, 1, 0, 6, 0, 12>>
\* the two bytes that strobe nibble n with RS = 0: enable set, then enable cleared
StrobePair(n, bl) == <<n * 16 + bl + 4, n * 16 + bl>>
InitCycles(bl) ==
    [i \in 1..(2 * Len(InitNibbles)) |-> StrobePair(InitNibbles[(i + 1) \div 2], bl)[2 - (i % 2)]]

\* the bus cycles a call delivered: the accepted writes but the standalone backlight
\* byte, which is the only write of a single byte
CyclesDelivered(w) ==
    BytesOf(SelectSeq(w, LAMBDA e : e.kind = "write" /\ Len(e.data) > 1), {"write"})

(* C20: the bus cycles of the initialization reach the transport in the     *)
(* mandated order: three wake nibbles 0x3, the nibble 0x2, function set     *)
(* 0x28, display control 0x08, clear 0x01, entry mode 0x06, display control *)
(* with the initial latches (0x0C), all with RS = 0.  At every point, also  *)
(* when a write is refused, what has been delivered is a beginning of this  *)
(* sequence, so no step's bytes are delivered ahead of an earlier step's.   *)
(* When the constructor returns, the delivered cycles followed by those     *)
(* still queued are the whole sequence; with auto-flush on none is queued.  *)
(* (Whether all of them have been delivered on return is not asserted here.)*)
C20_InitOrder ==
    (op.name = "__init__" /\ exc # NoDeviceError) =>
        LET bl == backlight_state
            cyc == CyclesDelivered(wire)
        IN /\ IsPrefix(cyc, InitCycles(bl))
           /\ exc = NoExc =>
                /\ cyc \o write_buffer = InitCycles(bl)
                /\ auto_flush => write_buffer = <<>>
                /\ wire[Len(wire)] = WriteEv(address, <<bl>>)
           /\ \A i \in 1..Len(wire) :
                wire[i].kind = "fail" => i = Len(wire) /\ exc = TransportError

\* a construction with auto-flush and the backlight on that returned: 28 bytes of
\* bus cycles delivered in five writes, the backlight byte after them
C20_Witness ==
    /\ op.name = "__init__" /\ op.args[2] /\ op.args[3] /\ exc = NoExc
    /\ CyclesDelivered(wire) = InitCycles(8)
    /\ Len(CyclesDelivered(wire)) = 28
    /\ SubSeq(CyclesDelivered(wire), 1, 8) = <<60, 56, 60, 56, 60, 56, 44, 40>>
    /\ write_buffer = <<>>

---------------------------------------------------------------------------
\* the waits of the wake-up sequence, in microseconds: after the first, the second
\* and the third wake nibble (lines 99, 101, 103)
WakeWaits == <<6000, 150, 150>>
\* the positions in w of the waits of the wake-up sequence
WakeWaitsIn(w) ==
    {i \in 1..Len(w) : w[i].kind = "sleep" /\ \E k \in 1..Len(WakeWaits) : w[i].us = WakeWaits[k]}

(* C21: in a construction that reaches the wake-up sequence, each of the    *)
(* three waits of that sequence (6 ms, 150 us, 150 us) begins only after    *)
(* its wake nibble 0x3 was delivered: the event just before the wait is an  *)
(* accepted transport write whose bytes strobe the nibble 0x3 with RS = 0.  *)
C21_WakeNibbleBeforeWait ==
    (op.name = "__init__" /\ exc = NoExc) =>
        /\ WakeWaitsIn(wire) # {}
        /\ \A i \in WakeWaitsIn(wire) :
              /\ i > 1
              /\ wire[i - 1].kind = "write"
              /\ wire[i - 1].data = StrobePair(3, backlight_state)

(* What the constructor does instead: the three wake nibbles and the nibble *)
(* 0x2 are queued while the waits elapse, and the first transport write of  *)
(* the construction, made after all four waits, carries the four of them in *)
(* one chunk of 8 bytes.                                                    *)
C21_WakeQueuedThroughWaits ==
    (op.name = "__init__" /\ exc # NoDeviceError) =>
        /\ Len(wire) >= 5 + (IF op.args[1] = None THEN 1 ELSE 0)
        /\ LET w == IF op.args[1] = None THEN Tail(wire) ELSE wire
           IN /\ SubSeq(w, 1, 4) = <<SleepEv(60000), SleepEv(6000), SleepEv(150), SleepEv(150)>>
              /\ w[5].kind \in {"write", "fail"}
              /\ w[5].data = SubSeq(InitCycles(backlight_state), 1, 8)

---------------------------------------------------------------------------
(* C22: when the constructor returns, with auto-flush on or off, every bus  *)
(* cycle of the initialization sequence (entry mode 0x06 and the final      *)
(* display control 0x0C included) has been delivered to the transport, the  *)
(* write buffer is empty, and the standalone backlight byte is the last     *)
(* write delivered.                                                         *)
C22_InitApplied ==
    (op.name = "__init__" /\ exc = NoExc) =>
        /\ CyclesDelivered(wire) = InitCycles(backlight_state)
        /\ write_buffer = <<>>
        /\ wire[Len(wire)] = WriteEv(address, <<backlight_state>>)

(* What holds instead.  With auto-flush on the statement above is true.     *)
(* With auto-flush off the constructor returns with the 8 bytes that strobe *)
(* the entry mode 0x06 and the display control 0x0C still queued: the last  *)
(* instruction the controller has received is the clear, it received the    *)
(* display control 0x08 before, and so its display is switched off.         *)
C22_InitAppliedOnlyWithAutoFlush ==
    (op.name = "__init__" /\ exc = NoExc) =>
        LET all == InitCycles(backlight_state)
            h == FeedWire(PowerOn, wire, 1)
        IN /\ wire[Len(wire)] = WriteEv(address, <<backlight_state>>)
           /\ auto_flush =>
                /\ CyclesDelivered(wire) = all
                /\ write_buffer = <<>>
                /\ h.display /\ h.inc /\ ~h.wide
           /\ ~auto_flush =>
                /\ CyclesDelivered(wire) = SubSeq(all, 1, Len(all) - 8)
                /\ write_buffer = SubSeq(all, Len(all) - 7, Len(all))
                /\ ~h.display /\ ~h.wide

---------------------------------------------------------------------------
\* bytes i..i+3 of d are two bus cycles: enable set then the identical byte with
\* enable cleared, twice, all four with the same RS, RW = 0 and the same backlight bit
TwoCycles(d, i) ==
    /\ Bit(d[i], _MASK_E) = 1 /\ d[i + 1] = d[i] - _MASK_E
    /\ Bit(d[i + 2], _MASK_E) = 1 /\ d[i + 3] = d[i + 2] - _MASK_E
    /\ d[i] % 16 = d[i + 2] % 16
    /\ Bit(d[i], _MASK_RW) = 0
\* d is made of whole groups of two bus cycles
WholeBytes(d) ==
    /\ Len(d) % 4 = 0
    /\ \A k \in 0..((Len(d) \div 4) - 1) : TwoCycles(d, 4 * k + 1)

\* the write buffer between two calls
C23_Buffer ==
    /\ Len(write_buffer) % 2 = 0
    /\ WholeBytes(write_buffer)
\* the writes of the last call, the refused one included: each carries whole groups,
\* or is the standalone backlight byte (one byte, enable cleared)
C23_Chunks ==
    \A i \in 1..Len(wire) :
        wire[i].kind \in {"write", "fail"} =>
            \/ WholeBytes(wire[i].data) /\ wire[i].data # <<>>
            \/ Len(wire[i].data) = 1 /\ Bit(wire[i].data[1], _MASK_E) = 0
\* a call that ended with a refused write.  If the refused write is a chunk of a
\* flush, the chunks delivered before it are whole groups, the refused chunk is
\* whole groups, and the buffer is left empty: what the flush dropped is the refused
\* chunk and the rest of a buffer of whole groups, so whole groups again
C23_Dropped ==
    exc = TransportError =>
        LET refused == wire[Len(wire)]
        IN /\ refused.kind = "fail"
           /\ WholeBytes(CyclesDelivered(wire))
           /\ Len(refused.data) > 1 => WholeBytes(refused.data) /\ write_buffer = <<>>

(* C23: between calls the write buffer has an even length, a multiple of 4, *)
(* made of whole bus-cycle groups.  Chunking by 8 therefore never separates *)
(* an enable-high byte from its enable-low partner nor a high nibble from   *)
(* its low nibble: every transport write, accepted or refused, carries      *)
(* whole groups (or is the standalone backlight byte), each byte with the   *)
(* enable bit set being followed in the same write by the identical byte    *)
(* with the bit cleared.  A flush that fails delivers whole logical bytes   *)
(* and drops whole logical bytes.                                           *)
C23_PairsNeverSplit == C23_Buffer /\ C23_Chunks /\ C23_Dropped

\* a clear() in manual-flush mode whose flush hands over 12 bytes (8 queued by the
\* constructor and its own 4) and fails at the second chunk
C23_Witness ==
    /\ op.name = "clear" /\ ~auto_flush /\ exc = TransportError
    /\ Len(wire) = 2
    /\ wire[1].kind = "write" /\ Len(wire[1].data) = 8 /\ WholeBytes(wire[1].data)
    /\ wire[2].kind = "fail" /\ Len(wire[2].data) = 4
    /\ write_buffer = <<>>

---------------------------------------------------------------------------
(* One row written the way SimpleConsole._render writes it: set_cursor(0, r) *)
(* and write(text) on the driver, then flush(), with the delivered bytes     *)
(* driving the display controller.  The driver is used directly, in either   *)
(* auto-flush mode.                                                          *)

\* the call's result stored as by Commit, and the controller driven by its writes
PanelCommit(name, args, result) ==
  \E m \in {result} :
    \E h \in {FeedWire(hd44780, m.wire, 1)} :
      /\ address' = m.address
      /\ auto_flush' = m.auto_flush
      /\ display_on' = m.display_on
      /\ cursor_on' = m.cursor_on
      /\ blink_on' = m.blink_on
      /\ backlight_state' = m.backlight_state
      /\ write_buffer' = m.write_buffer
      /\ wire' = m.wire
      /\ exc' = m.exc
      /\ op' = [name |-> name, args |-> args]
      /\ pending' = 0
      /\ backlight_set' = backlight_set
      /\ hd44780' = h
      /\ UNCHANGED <<console, lcd_calls, logged, failed>>

\* lcd.set_cursor(0, r); lcd.write(text); lcd.flush(): the calls SimpleConsole._render
\* makes for one row, and the flush that ends it
RowWritten(m, r, text) == flush(write(set_cursor(m, 0, r), text))

\* texts of cols characters: "ABC...T", "abc...t" and twenty "#"
RowTexts == {[i \in 1..COLS |-> 64 + i], [i \in 1..COLS |-> 96 + i], [i \in 1..COLS |-> 35]}
\* which transport write of the three calls fails (0: none)
RowFailAt == {0, 1, 2, 3, 11}
\* the text that fills row r before the call: cols times the character v + r
FillText(r, v) == [i \in 1..COLS |-> v + r]
\* "0" or "5": the rows are filled with "0".."3" or with "5".."8"
FillBases == {48, 53}

RECURSIVE FillRows(_, _, _)
\* rows r.. of the panel filled by the driver, one row after the other
FillRows(m, r, v) ==
    IF r >= ROWS \/ Raised(m) THEN m
    ELSE FillRows(RowWritten(m, r, FillText(r, v)), r + 1, v)

\* the row and the text drawn with the initial state (op.name = "call")
WriteRow ==
    \E f \in RowFailAt :
        /\ op.name = "call"
        /\ PanelCommit("set_cursor; write; flush", op.args,
                       RowWritten(Start(f), op.args[1], op.args[2]))

\* the driver as LCD2004(addr=0x27, auto_flush=...) returned it and as filling the
\* four rows left it; the controller as all these writes left it; wire holds the
\* events since the construction began
InitRow ==
    \E auto \in BOOLEAN, v \in FillBases, r \in 0..(ROWS - 1), text \in RowTexts :
      \E m \in {FillRows(__init__(39, TRUE, auto, <<>>, 0), 0, v)} :
        /\ address = m.address
        /\ auto_flush = m.auto_flush
        /\ display_on = m.display_on
        /\ cursor_on = m.cursor_on
        /\ blink_on = m.blink_on
        /\ backlight_state = m.backlight_state
        /\ write_buffer = m.write_buffer
        /\ wire = m.wire
        /\ exc = m.exc
        /\ op = [name |-> "call", args |-> <<r, text>>]
        /\ pending = 0
        /\ backlight_set = FALSE
        /\ console = NoConsole
        /\ lcd_calls = <<>>
        /\ logged = <<>>
        /\ hd44780 = FeedWire(PowerOn, m.wire, 1)
        /\ failed = 0

NextRow == WriteRow
SpecRow == InitRow /\ [][NextRow]_vars

---------------------------------------------------------------------------
\* the DDRAM address the driver computes for a grid position
RowAddr(col, row) == _ROW_OFFSETS[row + 1] + col
Grid == (0..(COLS - 1)) \X (0..(ROWS - 1))

\* the address map is injective over the grid and stays inside DDRAM's two lines
C24_Injective ==
    /\ \A p \in Grid, q \in Grid : RowAddr(p[1], p[2]) = RowAddr(q[1], q[2]) => p = q
    /\ \A p \in Grid : RowAddr(p[1], p[2]) \in (0..39) \cup (64..103)

\* one row written: set_cursor(0, r), write of cols characters, flush
C24_Step ==
    op'.name = "set_cursor; write; flush" =>
        LET r == op'.args[1]
            text == op'.args[2]
            new == hd44780'
            old == hd44780
            \* the number of characters of the text that reached the controller
            n == IF exc' = NoExc THEN COLS
                 ELSE Cardinality({c \in 0..(COLS - 1) : new.ddram[RowAddr(c, r)] # old.ddram[RowAddr(c, r)]})
        IN /\ Len(text) = COLS
           \* no DDRAM cell outside row r changes, and no other visible row does
           /\ \A a \in 0..(DDRAM_SIZE - 1) :
                (\A c \in 0..(COLS - 1) : a # RowAddr(c, r)) => new.ddram[a] = old.ddram[a]
           /\ \A r2 \in 0..(ROWS - 1), c \in 0..(COLS - 1) :
                r2 # r => Shown(new, r2, c) = Shown(old, r2, c)
           \* row r shows the text, or after a refused write a beginning of it followed
           \* by what the row showed before
           /\ \A c \in 0..(COLS - 1) :
                /\ Shown(new, r, c) = new.ddram[RowAddr(c, r)]
                /\ Shown(new, r, c).ch = IF c < n THEN text[c + 1] ELSE Shown(old, r, c).ch
           /\ exc' = NoExc => new.ac = NextAddr(RowAddr(COLS - 1, r))

(* C24: the map (col, row) -> rowOffset[row] + col is injective over the    *)
(* grid of cols x rows positions.  With the controller's address counter    *)
(* advancing by one per data write, set_cursor(0, r) followed by a write of *)
(* exactly cols characters changes DDRAM cells of row r only: every cell of *)
(* every other visible row shows what it showed before, and row r shows the *)
(* text written.                                                            *)
C24_RowWriteStaysInRow == []C24_Injective /\ [][C24_Step]_vars

\* row 2 overwritten with "abc...t" on a panel whose rows held "0000..", "1111..",
\* "2222.." and "3333..": rows 0, 1 and 3 still hold them
C24_Witness ==
    /\ op.name = "set_cursor; write; flush" /\ op.args[1] = 2 /\ exc = NoExc
    /\ \A c \in 0..(COLS - 1) :
         /\ Shown(hd44780, 2, c).ch = 97 + c
         /\ Shown(hd44780, 0, c).ch = 48
         /\ Shown(hd44780, 1, c).ch = 49
         /\ Shown(hd44780, 3, c).ch = 51
    /\ hd44780.ddram[20].ch = 97 /\ hd44780.ddram[39].ch = 116

---------------------------------------------------------------------------
(* log() calls on a console whose transport refuses a write now and then:   *)
(* at the first or the second chunk of the render's flush, in the middle of *)
(* it (chunk 11 holds the end of row 0 and the set_cursor of row 1, chunk   *)
(* 22 lies in row 2), or at its last chunk, the 42nd.                       *)

RecoverFailAt == {0, 1, 2, 11, 22, 42}

RecoverLog ==
    \E text \in LogInputs, f \in RecoverFailAt :
        /\ Len(logged) < MaxLogged
        /\ ConsoleCommit("SimpleConsole.log", <<text>>,
                         SimpleConsole_log(Running(f), text),
                         logged \o SliceFrom(LogAppend(Running(f), text)._buffer,
                                             Len(console._buffer)),
                         hd44780)

InitRecover ==
    \E orientation \in {"bottom", "top"}, wrap \in BOOLEAN :
        ConsoleConstructed(orientation, wrap,
                           [name |-> "SimpleConsole", args |-> <<39, orientation, wrap, <<>>>>])
NextRecover == RecoverLog
SpecRecover == InitRecover /\ [][NextRecover]_vars

---------------------------------------------------------------------------
\* the rows a render of buffer b is to show, top row first: in "bottom" orientation
\* the last entries with blank rows above them, otherwise the first entries with
\* blank rows below them (the window _render takes in either orientation)
Window(b, orientation) ==
    LET k == Min(ROWS, Len(b))
    IN [r \in 1..ROWS |->
           IF orientation = "bottom"
           THEN (IF r <= ROWS - k THEN BlankRow ELSE Padded(b[Len(b) - ROWS + r]))
           ELSE (IF r <= k THEN Padded(b[r]) ELSE BlankRow)]

\* the panel shows the window of the console's buffer on every cell
PanelInStep == \A r \in 0..(ROWS - 1) : RowShown(r) = Window(console._buffer, console.orientation)[r + 1]

\* every log(), whether its render succeeds or not: the buffer is the old buffer with
\* the new entries appended, cut to its last MAX_HISTORY entries; nothing is left in
\* the write buffer; the refused write is the only way to fail
C25_Step ==
    op'.name = "SimpleConsole.log" =>
        LET all == console._buffer \o SlicesFrom(TextOf(op'.args[1]), 1, console.wrap)
            kept == Min(MAX_HISTORY, Len(all))
        IN /\ console'._buffer = SubSeq(all, Len(all) - kept + 1, Len(all))
           /\ write_buffer' = <<>>
           /\ exc' \in {NoExc, TransportError}
           /\ exc' = TransportError => wire'[Len(wire')].kind = "fail"

\* after a log() that returned, however many log() calls failed before it
C25_Shown == (op.name = "SimpleConsole.log" /\ exc = NoExc) => PanelInStep

C25_WitnessFailed ==
    /\ op.name = "SimpleConsole.log" /\ exc = TransportError
    /\ Len(wire) = 11
    /\ write_buffer = <<>>
    /\ console._buffer = logged
    /\ ~PanelInStep

=============================================================================
